---- MODULE Spec2Model ----
(***************************************************************************)
(* llm_globber: the archive Writer (run_scraper, process_file,             *)
(* write_file_content), the blank-line normalizer (clean_up_text), the     *)
(* binary classifier (is_binary_data) and the archive Reader (unglob_file, *)
(* parse_file_header, process_extracted_file, write_extracted_file) of     *)
(* src/src/main.rs.                                                        *)
(*                                                                         *)
(* Text is modelled byte by byte: a string is a sequence of byte values    *)
(* (39 is the quote character, 45 the dash, 10 the line feed ...).  The    *)
(* base64 text of a key or of a signature is a sequence of symbols outside *)
(* the byte range; the ed25519 scheme is modelled as an ideal signature    *)
(* (a signature verifies exactly for the key and the bytes it was made     *)
(* for).                                                                   *)
(***************************************************************************)
EXTENDS Integers, Sequences, FiniteSets, TLC

(* ------------------------------ bounds -------------------------------- *)

\* most entries in the Writer's input list
MaxFiles == 2
\* most bytes of the file whose content varies
MaxBytes == 2

(* --------------------------- byte values ------------------------------ *)

NUL == 0
TAB == 9
LF == 10
CR == 13
SP == 32
SLASH == 47
DOT == 46
RBRACKET == 93
\* first symbol of the alphabet of base64 text (keys, signatures)
B64 == 1000

\* "'''"
Terminator == <<39, 39, 39>>
\* "'''--- "
HeaderPrefix == <<39, 39, 39, 45, 45, 45, 32>>
\* " ---"
HeaderSuffix == <<32, 45, 45, 45>>
\* " --- [SIGNATURE:"
SigDelim == <<32, 45, 45, 45, 32, 91, 83, 73, 71, 78, 65, 84, 85, 82, 69, 58>>
\* "PUBLIC_KEY --- [KEY:"
KeyWord == <<80, 85, 66, 76, 73, 67, 95, 75, 69, 89, 32, 45, 45, 45, 32, 91, 75, 69, 89, 58>>
\* "[Binary file - contents omitted]"
BinaryMarker == <<91, 66, 105, 110, 97, 114, 121, 32, 102, 105, 108, 101, 32, 45, 32,
                  99, 111, 110, 116, 101, 110, 116, 115, 32, 111, 109, 105, 116, 116,
                  101, 100, 93>>
\* "Non-UTF8 content"
NonUtf8Text == <<78, 111, 110, 45, 85, 84, 70, 56, 32, 99, 111, 110, 116, 101, 110, 116>>
\* "test_files"
TestFilesDir == <<116, 101, 115, 116, 95, 102, 105, 108, 101, 115>>
\* ".."
ParentDir == <<46, 46>>

(* ------------------------- string operations -------------------------- *)

\* Option<T>: None is the empty sequence, Some(x) the one-element sequence
None == <<>>
Some(x) == <<x>>

Min(a, b) == IF a < b THEN a ELSE b

\* str::starts_with
StartsWith(s, p) == Len(s) >= Len(p) /\ SubSeq(s, 1, Len(p)) = p

\* str::ends_with
EndsWith(s, p) == Len(s) >= Len(p) /\ SubSeq(s, Len(s) - Len(p) + 1, Len(s)) = p

\* char::is_whitespace on the bytes of the model
IsWhitespace(c) == c \in {TAB, LF, 11, 12, CR, SP}

\* str::trim
Trim(s) ==
    LET keep == {i \in 1..Len(s) : ~IsWhitespace(s[i])}
    IN  IF keep = {} THEN <<>>
        ELSE SubSeq(s, CHOOSE i \in keep : \A j \in keep : i <= j,
                       CHOOSE i \in keep : \A j \in keep : i >= j)

\* the start of the last occurrence of p in s, 0 when there is none (str::rfind)
RFind(s, p) ==
    LET at == {i \in 1..(Len(s) - Len(p) + 1) : SubSeq(s, i, i + Len(p) - 1) = p}
    IN  IF at = {} THEN 0 ELSE CHOOSE i \in at : \A j \in at : i >= j

\* the chunks of a sequence of chunks, one after the other
RECURSIVE Concat(_)
Concat(chunks) == IF chunks = <<>> THEN <<>> ELSE Head(chunks) \o Concat(Tail(chunks))

\* slice::join("\n")
RECURSIVE JoinLines(_)
JoinLines(ls) ==
    IF ls = <<>> THEN <<>>
    ELSE IF Len(ls) = 1 THEN ls[1]
    ELSE ls[1] \o <<LF>> \o JoinLines(Tail(ls))

\* BufRead::lines: split at '\n'; a line that was ended by "\r\n" loses the '\r'
\* too; bytes after the last '\n' are a last line
RECURSIVE Lines(_)
Lines(b) ==
    LET nl == {i \in 1..Len(b) : b[i] = LF}
        first == CHOOSE i \in nl : \A j \in nl : i <= j
        raw == SubSeq(b, 1, first - 1)
    IN  IF b = <<>> THEN <<>>
        ELSE IF nl = {} THEN <<b>>
        ELSE <<IF raw # <<>> /\ raw[Len(raw)] = CR
               THEN SubSeq(raw, 1, Len(raw) - 1) ELSE raw>>
             \o Lines(SubSeq(b, first + 1, Len(b)))

\* the parts of s between occurrences of sep
RECURSIVE SplitFrom(_, _, _)
SplitFrom(s, sep, cur) ==
    IF s = <<>> THEN <<cur>>
    ELSE IF Head(s) = sep THEN <<cur>> \o SplitFrom(Tail(s), sep, <<>>)
    ELSE SplitFrom(Tail(s), sep, Append(cur, Head(s)))

\* Path::components without the root: empty and "." components are dropped
Components(path) ==
    SelectSeq(SplitFrom(path, SLASH, <<>>), LAMBDA c : c # <<>> /\ c # <<DOT>>)

\* Path::file_name(..).and_then(to_str).unwrap_or(""): the last component,
\* none when the path ends in ".."
BaseName(path) ==
    LET cs == Components(path)
    IN  IF cs = <<>> \/ cs[Len(cs)] = ParentDir THEN <<>> ELSE cs[Len(cs)]

\* str::from_utf8(..).is_ok(), for ASCII bytes and the byte 255
IsUtf8(data) == \A i \in 1..Len(data) : data[i] < 128

(* -------------------------- binary classifier ------------------------- *)

SampleLimit == 4096

NonPrintable(byte) == byte = NUL \/ (byte < SP /\ byte # LF /\ byte # CR /\ byte # TAB)

\* the loop of is_binary_data from byte i on, np non-printable bytes seen so far
RECURSIVE ScanBinary(_, _, _, _)
ScanBinary(data, check_limit, i, np) ==
    IF i > check_limit THEN (np * 100) \div check_limit > 10
    ELSE IF NonPrintable(data[i])
         THEN IF np + 1 > 5 /\ ((np + 1) * 100) \div check_limit > 10
              THEN TRUE
              ELSE ScanBinary(data, check_limit, i + 1, np + 1)
         ELSE ScanBinary(data, check_limit, i + 1, np)

is_binary_data(data) ==
    LET check_limit == Min(Len(data), SampleLimit)
    IN  IF check_limit = 0 THEN FALSE ELSE ScanBinary(data, check_limit, 1, 0)

(* --------------------------- signature engine ------------------------- *)

\* the key pairs a run can generate
Keys == {1}

\* the base64 text of the public key of key pair k
KeyText(k) == <<B64 + k>>

\* sign_data: the base64 text of the signature of data under key pair k
sign_data(k, data) == <<B64 + k>> \o [i \in 1..Len(data) |-> B64 + 256 + data[i]]

\* verify_signature(..).is_ok()
verify_signature(k, data, sig) == sig = sign_data(k, data)

(* ------------------------------- logger ------------------------------- *)

\* LogLevel
Error == 0
Warn == 1
Info == 2
Debug == 3

\* a call of error!, warn!, info! or debug!
LogCall(level, msg) == [level |-> level, msg |-> msg]

\* GlobalLogger::enabled
enabled(logger, level) ==
    IF logger.quiet_mode THEN FALSE ELSE level <= logger.level

\* GlobalLogger::log for a sequence of calls: the records written to stderr
LogRecords(logger, calls) ==
    SelectSeq(calls, LAMBDA c : enabled(logger, c.level))

(* ------------------------------- state -------------------------------- *)

VARIABLES
    pc,                 \* where the run is: "main", "scrape_start",
                        \* "scrape_loop", "archive", "unglob", "done"
    args,               \* the command line of the encoding run
    GLOBAL_LOGGER,      \* level and quiet_mode of the encoding run's logger
    stderr,             \* history: the log records the encoding run emitted
    stream_writes,      \* history: one record per batch of writes to the
                        \* output stream: what was written and whether
                        \* config.output_mutex was held
    normalizer_max,     \* max_consecutive_newlines of a clean_up_text call
    normalizer_input,   \* history: the files clean_up_text was given, in order
    config,             \* the ScrapeConfig of the encoding run
    temp_git_dir,       \* the temporary clone directory on disk: "none",
                        \* "present" or "removed"
    fault,              \* the I/O failure of the encoding run, if any:
                        \* <<i, k>> = the k-th write call for entry i fails
                        \* (entry 0 is the public-key record); <<i, 0>> =
                        \* entry i is no longer a regular file when
                        \* process_file reaches it
    next_file,          \* index into config.file_entries of the writer loop
    files_processed,    \* run_scraper's local counter
    output_file,        \* the bytes of the archive file
    archive_exists,     \* the archive file exists in the output directory
    emitted,            \* history: one record per write_file_content call
    scrape_result,      \* what run_scraper returned ("" while running)
    uconfig,            \* the ScrapeConfig of the decoding run
    lines,              \* the lines of the archive the Reader iterates over
    pos,                \* index of the next line to read
    current_file,       \* Option<String>
    current_content,    \* Vec<String>
    current_signature,  \* Option<String>
    in_file_content,    \* bool
    extracted_public_key, \* Option<PublicKey>
    files_extracted,    \* usize
    disk,               \* history: the files written under or outside the
                        \* destination, in the order they were written
    verified,           \* history: one record per verify_signature call
    anomalies,          \* number of "no signature" warnings
    current_header,     \* history: the line number of the open entry's header
    tampered,           \* the archive was modified after it was written
    unglob_result       \* what unglob_file returned ("" while running)

enc_vars == <<args, GLOBAL_LOGGER, stderr, stream_writes, normalizer_max,
              normalizer_input, config, temp_git_dir, fault,
              next_file, files_processed, output_file, archive_exists, emitted,
              scrape_result>>

dec_vars == <<uconfig, lines, pos, current_file, current_content,
              current_signature, in_file_content, extracted_public_key,
              files_extracted, disk, verified, anomalies, current_header,
              tampered, unglob_result>>

vars == <<pc, enc_vars, dec_vars>>

(* ------------------------------- inputs ------------------------------- *)

\* the bytes file contents are made of: 'a', line feed, carriage return,
\* space, NUL and 255, a byte that occurs in no UTF-8 text
ContentBytes == {97, LF, CR, SP, NUL, 255}

RECURSIVE SeqsUpTo(_, _)
SeqsUpTo(S, n) ==
    IF n = 0 THEN {<<>>}
    ELSE LET shorter == SeqsUpTo(S, n - 1)
         IN  shorter \cup {Append(s, x) : s \in {t \in shorter : Len(t) = n - 1}, x \in S}

\* the name of the i-th input file: "a", "b", ...
FileName(i) == <<96 + i>>

\* the shapes of path a collector can hand to the Writer: a bare name, a
\* name under test_files/, a name under the parent directory, an absolute path
PathShapes == {"plain", "test_files", "parent", "absolute"}

ShapedPath(shape, name) ==
    CASE shape = "plain" -> name
      [] shape = "test_files" -> TestFilesDir \o <<SLASH>> \o name
      [] shape = "parent" -> ParentDir \o <<SLASH>> \o name
      [] shape = "absolute" -> <<SLASH>> \o name

FileEntry(path, data) == [path |-> path, data |-> data]

\* the one-line text file "a\n"
OneLine == <<97, LF>>

\* input lists of n files with bare names: the content of the first one
\* varies, the others are one-line text files
ContentLists(n) ==
    {[i \in 1..n |-> FileEntry(FileName(i), IF i = 1 THEN d ELSE OneLine)] :
        d \in SeqsUpTo(ContentBytes, MaxBytes)}

\* input lists of n one-line text files whose paths vary
RECURSIVE PathLists(_)
PathLists(n) ==
    IF n = 0 THEN {<<>>}
    ELSE {Append(fs, FileEntry(ShapedPath(sh, FileName(n)), OneLine)) :
            fs \in PathLists(n - 1), sh \in PathShapes}

InputLists == UNION {ContentLists(n) \cup PathLists(n) : n \in 1..MaxFiles}

\* the input lists of the runs in which a write call fails: n files, in turn
\* the text file "a" and the one-byte file NUL
FaultLists ==
    {[i \in 1..n |-> FileEntry(FileName(i), IF i % 2 = 1 THEN <<97>> ELSE <<NUL>>)] :
        n \in 1..MaxFiles}

\* the I/O failures of an encoding run: none, or the k-th write call for
\* entry i (write_file_content makes at most five)
Faults == {<<i, k>> : i \in 0..MaxFiles, k \in 1..5}

\* the runs in which a collected file is removed, or replaced by a
\* directory, before the writer loop reaches it
Vanished == {<<i, 0>> : i \in 1..MaxFiles}

\* the name of the i-th input file as a dot file: ".a", ".b", ...
DotName(i) == <<DOT>> \o FileName(i)

\* input lists of up to MaxFiles one-line text files, each one a dot file or
\* not; the empty list is the command line that names no file, the directory
\* that holds none, the repository that tracks none
OptionLists ==
    UNION {{[i \in 1..n |-> FileEntry(IF i \in D THEN DotName(i) ELSE FileName(i),
                                      OneLine)] : D \in SUBSET (1..n)} :
              n \in 0..MaxFiles}

\* where the input files come from: named one by one on the command line,
\* found in a directory named with -r, or listed by git (--git)
Sources == {"paths", "directory", "git"}

\* the command line "-o PATH -n NAME files..." with no other option
DefaultArgs(fs) ==
    [input_paths |-> fs, source |-> "paths", threads |-> FALSE,
     dot_files |-> FALSE, quiet |-> FALSE, verbose |-> FALSE,
     abort_on_error |-> FALSE, signature |-> FALSE, basic_test |-> FALSE,
     git_url |-> FALSE, output_path_ok |-> TRUE, max_size_ok |-> TRUE,
     debug |-> FALSE, recursive |-> FALSE, name_pattern |-> <<>>,
     file_types |-> {}, all_files |-> FALSE, max_size |-> None,
     entries_before |-> 0]

\* most entries of config.file_entries
MAX_FILES == 100000

\* config.max_file_size unless -s is given
DEFAULT_MAX_FILE_SIZE == 1073741824

\* most entries of a directory of the collection runs
MaxEntries == 2

\* a directory entry that is a directory, with its own entries
Directory(name, entries) == [path |-> name, entries |-> entries]

IsDirectory(entry) == "entries" \in DOMAIN entry

\* the files of those directories: "a.c" empty or one byte long, "b.h", ".a.c"
TreeFiles ==
    { FileEntry(<<97, DOT, 99>>, <<>>), FileEntry(<<97, DOT, 99>>, <<97>>),
      FileEntry(<<98, DOT, 104>>, <<97>>), FileEntry(<<DOT, 97, DOT, 99>>, <<97>>) }

\* a directory "d" or ".d" that is empty or holds "a.c" or ".a.c"
LeafDirs ==
    {Directory(name, es) :
        name \in {<<100>>, <<DOT, 100>>},
        es \in {<<>>, <<FileEntry(<<97, DOT, 99>>, <<97>>)>>,
                <<FileEntry(<<DOT, 97, DOT, 99>>, <<97>>)>>}}

\* a directory "d" that holds a directory "d" or ".d" with "a.c" in it
OuterDirs ==
    {Directory(<<100>>, <<Directory(name, <<FileEntry(<<97, DOT, 99>>, <<97>>)>>)>>) :
        name \in {<<100>>, <<DOT, 100>>}}

\* the listings of the directory named on the command line: up to MaxEntries
\* entries of different names
Listings ==
    {es \in SeqsUpTo(TreeFiles \cup LeafDirs \cup OuterDirs, MaxEntries) :
        \A i, j \in 1..Len(es) : i < j => es[i].path # es[j].path}

\* the filters of those runs, as (--pattern, -t, -a, -s): none, 'a*', "c",
\* "c" with -a, 0, and 'a*' with "c" and 0
Filters ==
    { <<<<>>, {}, FALSE, None>>, <<<<97, 42>>, {}, FALSE, None>>,
      <<<<>>, {<<99>>}, FALSE, None>>, <<<<>>, {<<99>>}, TRUE, None>>,
      <<<<>>, {}, FALSE, Some(0)>>, <<<<97, 42>>, {<<99>>}, FALSE, Some(0)>> }

\* command lines "-r DIR" with those filters, -d or not; and command lines
\* that name, before DIR, paths that put MAX_FILES entries, or one fewer, in
\* the list
CollectRuns ==
    {[DefaultArgs(es) EXCEPT !.source = "directory", !.recursive = TRUE,
                             !.dot_files = d, !.name_pattern = f[1],
                             !.file_types = f[2], !.all_files = f[3],
                             !.max_size = f[4]] :
        es \in Listings, d \in BOOLEAN, f \in Filters}
    \cup {[DefaultArgs(es) EXCEPT !.source = "directory", !.recursive = TRUE,
                                  !.entries_before = n] :
            es \in Listings, n \in {MAX_FILES - 1, MAX_FILES}}

\* command lines "--git URL": an output path that exists or not, a -s value
\* that is a number or not, --debug or not
CloneRuns ==
    {[DefaultArgs(fs) EXCEPT !.source = "git", !.git_url = TRUE,
                             !.output_path_ok = o, !.max_size_ok = s,
                             !.debug = dbg] :
        fs \in OptionLists, o \in BOOLEAN, s \in BOOLEAN, dbg \in BOOLEAN}

\* command lines whose files vary in content and path: --signature or not,
\* an output name that holds "basic_test" or not
ContentRuns ==
    {[DefaultArgs(fs) EXCEPT !.signature = sig, !.basic_test = bt] :
        fs \in InputLists, sig \in BOOLEAN, bt \in BOOLEAN}

\* command lines of the runs in which a write call fails: also -e or not
FaultRuns ==
    {[DefaultArgs(fs) EXCEPT !.signature = sig, !.basic_test = bt,
                             !.abort_on_error = e] :
        fs \in FaultLists, sig \in BOOLEAN, bt \in BOOLEAN, e \in BOOLEAN}

\* command lines whose options vary: -j, -d, -q, -v, --signature, and the
\* source of the files (-r is given, so a directory is read)
OptionRuns ==
    {[DefaultArgs(fs) EXCEPT !.source = src, !.threads = j, !.dot_files = d,
                             !.quiet = q, !.verbose = v, !.signature = sig,
                             !.recursive = TRUE] :
        fs \in OptionLists, src \in Sources, j \in BOOLEAN, d \in BOOLEAN,
        q \in BOOLEAN, v \in BOOLEAN, sig \in BOOLEAN}

(* --------------------------- input collection ------------------------- *)

\* parse_file_types: every type of the list with a dot before it
parse_file_types(types) ==
    {IF StartsWith(Trim(ext), <<DOT>>) THEN Trim(ext) ELSE <<DOT>> \o Trim(ext) :
        ext \in {e \in types : Trim(e) # <<>>}}

\* glob_match, Pattern::matches: '*' stands for any text, '?' for any one
\* character (the patterns of the model hold no '[')
RECURSIVE glob_match(_, _)
glob_match(pattern, name) ==
    IF pattern = <<>> THEN name = <<>>
    ELSE IF Head(pattern) = 42
    THEN \/ glob_match(Tail(pattern), name)
         \/ name # <<>> /\ glob_match(pattern, Tail(name))
    ELSE /\ name # <<>>
         /\ Head(pattern) = 63 \/ Head(pattern) = Head(name)
         /\ glob_match(Tail(pattern), Tail(name))

\* Path::extension of a file name with a dot before it: none without a dot
\* in the name, none when the only dot is the first character
ExtensionWithDot(base_name) ==
    LET at == RFind(base_name, <<DOT>>)
    IN  IF at <= 1 THEN None
        ELSE Some(<<DOT>> \o SubSeq(base_name, at + 1, Len(base_name)))

\* is_allowed_file_type
is_allowed_file_type(cfg, file_path) ==
    IF ~cfg.filter_files \/ cfg.file_type_hash = {} THEN TRUE
    ELSE LET ext_with_dot == ExtensionWithDot(BaseName(file_path))
         IN  ext_with_dot # None /\ ext_with_dot[1] \in cfg.file_type_hash

\* a ScrapeConfig that accepts every file, dot files included
should_process_file_any(cfg, file_path, base_name, file_size) == TRUE

\* should_process_file; file_size is what get_file_size(file_path) returns
should_process_file(cfg, file_path, base_name, file_size) ==
    /\ ~(StartsWith(base_name, <<DOT>>) /\ cfg.no_dot_files)
    /\ file_size <= cfg.max_file_size
    /\ cfg.name_pattern # <<>> => glob_match(cfg.name_pattern, base_name)
    /\ ~(cfg.filter_files /\ cfg.file_type_hash # {}
         /\ ~is_allowed_file_type(cfg, file_path))

\* the log calls of should_process_file
ShouldProcessCalls(cfg, file_path, base_name, file_size) ==
    IF StartsWith(base_name, <<DOT>>) /\ cfg.no_dot_files
    THEN <<LogCall(Debug, "Skipping dot file")>>
    ELSE (IF StartsWith(base_name, <<DOT>>)
          THEN <<LogCall(Warn, "Including dot file")>> ELSE <<>>)
         \o (IF file_size > cfg.max_file_size
             THEN <<LogCall(Warn, "Skipping file: size exceeds limit")>>
             ELSE <<>>)

\* process_directory skips a dot-named entry, file or directory, before
\* anything else
SkippedByDirectory(cfg, file_name) ==
    cfg.no_dot_files /\ StartsWith(file_name, <<DOT>>)

\* process_directory: the files it hands to should_process_file, in the
\* order of the directory listing, each with its full path
RECURSIVE process_directory(_, _, _)
process_directory(cfg, dir_path, entries) ==
    IF entries = <<>> THEN <<>>
    ELSE LET entry == Head(entries)
             full_path == dir_path \o entry.path
         IN  (IF SkippedByDirectory(cfg, entry.path) THEN <<>>
              ELSE IF IsDirectory(entry)
              THEN (IF cfg.recursive
                    THEN process_directory(cfg, full_path \o <<SLASH>>, entry.entries)
                    ELSE <<>>)
              ELSE <<FileEntry(full_path, entry.data)>>)
             \o process_directory(cfg, dir_path, Tail(entries))

\* the files main hands to should_process_file: those named on the command
\* line or listed by git, or those of the directory named (with -r)
Visited(cfg, source, fs) ==
    IF source = "directory"
    THEN (IF cfg.recursive THEN process_directory(cfg, <<>>, fs) ELSE <<>>)
    ELSE fs

\* add_file_entry for each file accepted: the first ones up to MAX_FILES
\* entries in the list, before of which were there already
Collected(cfg, source, fs, before) ==
    LET accepted == SelectSeq(Visited(cfg, source, fs), LAMBDA f :
                        should_process_file(cfg, f.path, BaseName(f.path), Len(f.data)))
    IN  SubSeq(accepted, 1, Min(Len(accepted), MAX_FILES - before))

\* the log calls of the collection of the files visited, len entries in the
\* list
RECURSIVE CollectCallsFrom(_, _, _)
CollectCallsFrom(cfg, visited, len) ==
    IF visited = <<>> THEN <<>>
    ELSE LET f == Head(visited)
             ok == should_process_file(cfg, f.path, BaseName(f.path), Len(f.data))
             full == len >= MAX_FILES
         IN  ShouldProcessCalls(cfg, f.path, BaseName(f.path), Len(f.data))
             \o (IF ok /\ full
                 THEN <<LogCall(Warn, "Maximum file limit reached")>> ELSE <<>>)
             \o CollectCallsFrom(cfg, Tail(visited),
                                 IF ok /\ ~full THEN len + 1 ELSE len)

\* the log calls of that collection
CollectCalls(cfg, source, fs, before) ==
    (IF source = "directory" /\ ~cfg.recursive
     THEN <<LogCall(Warn, "is a directory. Use -r to process recursively.")>>
     ELSE <<>>)
    \o CollectCallsFrom(cfg, Visited(cfg, source, fs), before)

\* the temporary directory clone_git_repository makes
TempCloneDir == "llm_globber_clone_"

\* cleanup_config_temp_dirs: the clone directory after it
cleanup_config_temp_dirs(cfg) ==
    IF cfg.temp_git_path # None THEN "removed" ELSE temp_git_dir

\* the log calls of cleanup_config_temp_dirs
CleanupCalls(cfg) ==
    IF cfg.temp_git_path # None
    THEN <<LogCall(Info, "Cleaning up temporary directory"),
           LogCall(Info, "Successfully cleaned up temporary directory")>>
    ELSE <<>>

\* main up to the call of run_scraper: the options in the order main looks at
\* them (-j, -d, -q, -v, -e, --signature), then the collection of the input
\* files; no input and no file selected end the run before an archive exists
main ==
    /\ pc = "main"
    /\ \E k \in Keys :
       \E clone_ok, branch_ok, tracked_ok \in (IF args.git_url THEN BOOLEAN ELSE {TRUE}) :
         LET git == args.source = "git"
             url == git /\ args.git_url
             cloned == url /\ clone_ok
             logger == [level |-> IF args.verbose THEN Debug ELSE GLOBAL_LOGGER.level,
                        quiet_mode |-> IF args.quiet THEN TRUE
                                       ELSE GLOBAL_LOGGER.quiet_mode]
             base == [config EXCEPT
                        !.temp_git_path = IF cloned THEN Some(TempCloneDir) ELSE @]
             cfg == [base EXCEPT
                       !.no_dot_files = IF args.dot_files THEN FALSE ELSE @,
                       !.quiet = IF args.quiet THEN TRUE ELSE @,
                       !.verbose = IF args.verbose THEN TRUE ELSE @,
                       !.abort_on_error = IF args.abort_on_error THEN TRUE ELSE @,
                       !.use_signature = IF args.signature THEN TRUE ELSE @,
                       !.keypair = IF args.signature THEN Some(k) ELSE @,
                       !.public_key = IF args.signature THEN Some(k) ELSE @,
                       !.basic_test = args.basic_test,
                       !.file_type_hash = parse_file_types(args.file_types),
                       !.filter_files = IF args.all_files THEN FALSE ELSE @,
                       !.recursive = IF args.recursive \/ git THEN TRUE ELSE @,
                       !.name_pattern = args.name_pattern,
                       !.max_file_size = IF args.max_size # None
                                         THEN args.max_size[1] * 1024 * 1024
                                         ELSE @]
             selected == Collected(cfg, args.source, args.input_paths,
                                   args.entries_before)
             result == IF url /\ ~clone_ok THEN "CloneFailed"
                       ELSE IF ~args.output_path_ok THEN "InvalidOutputPath"
                       ELSE IF git /\ ~branch_ok THEN "GitBranchFailed"
                       ELSE IF ~args.max_size_ok THEN "InvalidMaxSize"
                       ELSE IF git /\ ~tracked_ok THEN "GitFilesFailed"
                       ELSE IF git /\ args.input_paths = <<>> THEN "NoTrackedFiles"
                       ELSE IF args.source = "paths" /\ args.input_paths = <<>>
                       THEN "NoInput"
                       ELSE IF selected = <<>> /\ args.entries_before = 0
                       THEN "NoFilesFound"
                       ELSE ""
             in_git_block == result \in {"CloneFailed", "InvalidOutputPath",
                                         "GitBranchFailed"}
             in_options == in_git_block \/ result = "InvalidMaxSize"
             in_git_files == result \in {"GitFilesFailed", "NoTrackedFiles"}
             cleans == result \in {"NoInput", "NoFilesFound"}
             early == (IF url
                       THEN <<LogCall(Info, "Detected git URL"),
                              LogCall(Info, "Cloning to temporary directory")>>
                            \o (IF clone_ok
                                THEN <<LogCall(Info, "Successfully cloned repository")>>
                                ELSE <<>>)
                       ELSE <<>>)
                      \o (IF git /\ ~in_git_block
                          THEN <<LogCall(Info, "Processing git repository"),
                                 LogCall(Info, "Repository, Branch"),
                                 LogCall(Info, "Output will be")>>
                          ELSE <<>>)
                      \o (IF args.threads /\ ~in_git_block
                          THEN <<LogCall(Warn, "The -j option is deprecated")>>
                          ELSE <<>>)
             late == IF in_options THEN <<>>
                     ELSE (IF args.signature
                           THEN <<LogCall(Info, "Generated ed25519 keypair"),
                                  LogCall(Info, "Public key")>>
                           ELSE <<>>)
                          \o <<LogCall(Info, "Output path set to")>>
                          \o (IF git /\ ~in_git_files
                              THEN <<LogCall(Info, "Found tracked files")>>
                              ELSE <<>>)
                          \o (IF git /\ in_git_files THEN <<>>
                              ELSE CollectCalls(cfg, args.source, args.input_paths,
                                                args.entries_before))
                          \o (IF cleans THEN CleanupCalls(cfg) ELSE <<>>)
         IN  /\ GLOBAL_LOGGER' = IF in_options THEN GLOBAL_LOGGER ELSE logger
             /\ stderr' = stderr \o LogRecords(GLOBAL_LOGGER, early)
                                 \o LogRecords(logger, late)
             /\ config' = IF in_options THEN base
                          ELSE [cfg EXCEPT !.file_entries =
                                   IF in_git_files THEN <<>> ELSE selected]
             /\ temp_git_dir' = IF ~cloned THEN temp_git_dir
                                ELSE IF cleans THEN cleanup_config_temp_dirs(cfg)
                                ELSE "present"
             /\ scrape_result' = result
             /\ pc' = IF result = "" THEN "scrape_start" ELSE "done"
    /\ UNCHANGED <<args, stream_writes, normalizer_max, normalizer_input, fault,
                   next_file, files_processed, output_file, archive_exists,
                   emitted, dec_vars>>

(* --------------------------- Archive Writer --------------------------- *)

\* a Writer that signs binary entries too
HeaderLineSignsAll(cfg, file_path, data, is_binary) ==
    IF cfg.use_signature /\ cfg.keypair # None
    THEN HeaderPrefix \o file_path \o SigDelim
         \o sign_data(cfg.keypair[1], data) \o <<RBRACKET>>
    ELSE HeaderPrefix \o file_path \o HeaderSuffix

\* the header line write_file_content builds for an entry
HeaderLine(cfg, file_path, data, is_binary) ==
    IF cfg.use_signature /\ ~is_binary /\ cfg.keypair # None
    THEN HeaderPrefix \o file_path \o SigDelim
         \o sign_data(cfg.keypair[1], data) \o <<RBRACKET>>
    ELSE HeaderPrefix \o file_path \o HeaderSuffix

\* the bytes write_file_content passes to sign_data, if it signs
SignedBytes(cfg, data, is_binary) ==
    IF cfg.use_signature /\ ~is_binary /\ cfg.keypair # None THEN Some(data) ELSE None

\* the write calls of write_file_content in order, each with the bytes it
\* appends; the last one is the flush
WriteCalls(cfg, file_path, data, is_binary) ==
    <<HeaderLine(cfg, file_path, data, is_binary) \o <<LF>>>>
    \o (IF is_binary
        THEN <<BinaryMarker \o <<LF>>>>
        ELSE (IF data # <<>>
              THEN <<IF IsUtf8(data) THEN data ELSE NonUtf8Text>>
              ELSE <<>>)
             \o <<<<LF>> \o Terminator \o <<LF>>, <<LF>>>>)
    \o << <<>> >>

\* a Writer that never writes the public-key record
KeyRecordCallsNever(cfg) == <<>>

\* the write calls of run_scraper for the public-key record
KeyRecordCalls(cfg) ==
    IF cfg.use_signature /\ cfg.public_key # None
    THEN <<HeaderPrefix \o KeyWord \o KeyText(cfg.public_key[1]) \o <<RBRACKET, LF>>,
           Terminator \o <<LF, LF>>>>
    ELSE <<>>

\* the index of the write call that fails for entry i, 0 when none does
FailingCall(i, calls) ==
    IF fault # None /\ fault[1] = i /\ fault[2] <= Len(calls) THEN fault[2] ELSE 0

\* the bytes that reach the archive when the k-th call fails (all when k = 0)
Written(calls, k) == Concat(IF k = 0 THEN calls ELSE SubSeq(calls, 1, k - 1))

\* clean_up_text: the archive rewritten line by line, a whitespace-only line
\* written as an empty line unless it is past the max-th of its run
RECURSIVE CleanLines(_, _, _)
CleanLines(ls, max_consecutive_newlines, consecutive_newlines) ==
    IF ls = <<>> THEN <<>>
    ELSE IF Trim(Head(ls)) = <<>>
         THEN (IF consecutive_newlines + 1 <= max_consecutive_newlines
               THEN <<LF>> ELSE <<>>)
              \o CleanLines(Tail(ls), max_consecutive_newlines, consecutive_newlines + 1)
         ELSE Head(ls) \o <<LF>> \o CleanLines(Tail(ls), max_consecutive_newlines, 0)

clean_up_text(bytes, max_consecutive_newlines) ==
    CleanLines(Lines(bytes), max_consecutive_newlines, 0)

\* an output stream that puts what is written before what it holds
Prepended(file, bytes) == bytes \o file

\* the output stream after a write: the bytes go to its end
Appended(file, bytes) == file \o bytes

\* the counters a Writer keeps that counts successes only
CountedSuccessOnly(cfg, processed, ok) ==
    IF ok THEN [cfg EXCEPT !.processed_files = processed + 1] ELSE cfg

\* the counters of the config after process_file returned for one entry
Counted(cfg, processed, ok) ==
    IF ok THEN [cfg EXCEPT !.processed_files = processed + 1]
    ELSE [cfg EXCEPT !.failed_files = @ + 1]

\* an end of run that leaves the archive where it is whatever was processed
ArchiveKeptAlways(processed) == TRUE

\* run_scraper after the loop keeps the archive unless no file was processed
ArchiveKept(processed) == processed # 0

\* run_scraper up to the writer loop: create the archive, write the key
\* record; run_scraper does not take config.output_mutex for these writes
ScrapeStart ==
    /\ pc = "scrape_start"
    /\ LET calls == KeyRecordCalls(config)
           k == FailingCall(0, calls)
       IN  /\ output_file' = Written(calls, k)
           /\ archive_exists' = TRUE
           /\ stream_writes' = IF calls = <<>> THEN stream_writes
                               ELSE Append(stream_writes,
                                           [entry |-> 0, locked |-> FALSE])
           /\ stderr' = stderr \o LogRecords(GLOBAL_LOGGER,
                  <<LogCall(Info, "Starting file processing...")>>
                  \o (IF calls # <<>> /\ k = 0
                      THEN <<LogCall(Info, "Added public key to output file")>>
                      ELSE <<>>)
                  \o (IF k = 0 THEN <<>>
                      ELSE <<LogCall(Error, "Scraper failed")>>
                           \o CleanupCalls(config)))
           /\ IF k = 0
              THEN /\ pc' = "scrape_loop"
                   /\ scrape_result' = ""
                   /\ UNCHANGED temp_git_dir
              ELSE /\ pc' = "done"
                   /\ scrape_result' = "IoFailure"
                   /\ temp_git_dir' = cleanup_config_temp_dirs(config)
    /\ UNCHANGED <<args, GLOBAL_LOGGER, normalizer_max, normalizer_input, config,
                   fault, next_file, files_processed, emitted, dec_vars>>

\* is_regular_file for entry i when process_file asks
is_regular_file(i) == ~(fault # None /\ fault[1] = i /\ fault[2] = 0)

\* one iteration of the writer loop: process_file and write_file_content,
\* which holds config.output_mutex from its first line to its return; the
\* debug! calls of log_signature_debug_info and of sign_data are one record
\* each
ProcessFile ==
    /\ pc = "scrape_loop"
    /\ next_file <= Len(config.file_entries)
    /\ LET entry == config.file_entries[next_file]
           base_name == BaseName(entry.path)
           regular == is_regular_file(next_file)
           selected == regular
                       /\ should_process_file(config, entry.path, base_name,
                                              Len(entry.data))
           is_binary == is_binary_data(entry.data)
           calls == WriteCalls(config, entry.path, entry.data, is_binary)
           k == IF selected THEN FailingCall(next_file, calls) ELSE 0
           bytes == IF selected THEN Written(calls, k) ELSE <<>>
           signs == SignedBytes(config, entry.data, is_binary) # None
       IN  /\ output_file' = Appended(output_file, bytes)
           /\ emitted' = IF selected
                         THEN Append(emitted,
                                [path |-> entry.path, is_binary |-> is_binary,
                                 signed |-> SignedBytes(config, entry.data, is_binary),
                                 bytes |-> bytes, ok |-> k = 0])
                         ELSE emitted
           /\ stream_writes' = IF selected
                               THEN Append(stream_writes,
                                           [entry |-> next_file, locked |-> TRUE])
                               ELSE stream_writes
           /\ stderr' = stderr \o LogRecords(GLOBAL_LOGGER,
                  (IF regular
                   THEN <<LogCall(Debug, "Processing file")>>
                        \o ShouldProcessCalls(config, entry.path, base_name,
                                              Len(entry.data))
                   ELSE <<LogCall(Warn, "Skipping invalid file path")>>)
                  \o (IF selected /\ signs
                      THEN <<LogCall(Debug, "Signing signature for file"),
                             LogCall(Debug, "Signing data of length"),
                             LogCall(Debug, "Generated signature for")>>
                      ELSE <<>>))
           /\ files_processed' = IF k = 0 THEN files_processed + 1
                                 ELSE files_processed
           /\ config' = Counted(config, files_processed, k = 0)
    /\ next_file' = next_file + 1
    /\ UNCHANGED <<pc, args, GLOBAL_LOGGER, normalizer_max, normalizer_input,
                   temp_git_dir, fault, archive_exists, scrape_result, dec_vars>>

\* run_scraper after the loop, and main after run_scraper: no file processed
\* is an error and removes the archive; otherwise the normalizer runs (not
\* for a "basic_test" archive); with --debug main dumps the archive, and
\* returns at once when that fails; otherwise it cleans up and returns
ScrapeEnd ==
    /\ pc = "scrape_loop"
    /\ next_file > Len(config.file_entries)
    /\ \E dump_ok \in (IF args.debug THEN BOOLEAN ELSE {TRUE}) :
       IF ~ArchiveKept(files_processed)
       THEN /\ archive_exists' = FALSE
            /\ output_file' = <<>>
            /\ scrape_result' = "NoFilesProcessed"
            /\ pc' = "done"
            /\ UNCHANGED normalizer_input
            /\ stderr' = stderr \o LogRecords(GLOBAL_LOGGER,
                   <<LogCall(Error, "Scraper failed")>> \o CleanupCalls(config))
            /\ temp_git_dir' = cleanup_config_temp_dirs(config)
       ELSE /\ archive_exists' = TRUE
            /\ output_file' = IF config.basic_test THEN output_file
                              ELSE clean_up_text(output_file, 2)
            /\ normalizer_input' = IF config.basic_test THEN normalizer_input
                                   ELSE Append(normalizer_input, output_file)
            /\ scrape_result' = IF dump_ok THEN "Ok" ELSE "DebugDumpFailed"
            /\ pc' = IF dump_ok THEN "archive" ELSE "done"
            /\ stderr' = stderr \o LogRecords(GLOBAL_LOGGER,
                   <<LogCall(Info, IF config.basic_test
                                   THEN "Skipping cleanup for basic test file"
                                   ELSE "Cleaning up file..."),
                     LogCall(Info, "Done. Processed")>>
                   \o (IF config.failed_files > 0
                       THEN <<LogCall(Warn, "Failed to process")>> ELSE <<>>)
                   \o (IF dump_ok
                       THEN <<LogCall(Info, "Scraper completed successfully")>>
                            \o CleanupCalls(config)
                       ELSE <<>>))
            /\ temp_git_dir' = IF dump_ok THEN cleanup_config_temp_dirs(config)
                               ELSE temp_git_dir
    /\ UNCHANGED <<args, GLOBAL_LOGGER, stream_writes, normalizer_max, config,
                   fault, next_file, files_processed, emitted, dec_vars>>

(* --------------------------- Archive Reader --------------------------- *)

\* the destination directory of the decoding run, "/out", as path components
\* from the root
OutputBase == << <<111, 117, 116>> >>

\* Path::is_absolute
IsAbsolute(path) == path # <<>> /\ path[1] = SLASH

\* Path::new(file_path).strip_prefix("test_files/").unwrap_or(file_path), as
\* components
RelativePath(file_path) ==
    LET cs == Components(file_path)
    IN  IF ~IsAbsolute(file_path) /\ cs # <<>> /\ cs[1] = TestFilesDir
        THEN Tail(cs) ELSE cs

\* the file the operating system opens for the components cs from the root:
\* ".." leaves the directory it is in
RECURSIVE Resolve(_, _)
Resolve(cs, at) ==
    IF cs = <<>> THEN at
    ELSE IF Head(cs) = ParentDir
         THEN Resolve(Tail(cs), IF at = <<>> THEN <<>> ELSE SubSeq(at, 1, Len(at) - 1))
         ELSE Resolve(Tail(cs), Append(at, Head(cs)))

\* output_base.join(relative_path), resolved: an absolute path replaces the base
OutputLocation(file_path) ==
    IF IsAbsolute(file_path)
    THEN Resolve(RelativePath(file_path), <<>>)
    ELSE Resolve(OutputBase \o RelativePath(file_path), <<>>)

\* parse_file_header: [ok, path, sig]
parse_file_header(line) ==
    LET trimmed_line == Trim(line)
        content == SubSeq(trimmed_line, Len(HeaderPrefix) + 1, Len(trimmed_line))
        at == RFind(content, SigDelim)
        sig_part == SubSeq(content, at + Len(SigDelim), Len(content))
        bad == [ok |-> FALSE, path |-> <<>>, sig |-> None]
    IN  IF ~StartsWith(trimmed_line, HeaderPrefix)
           \/ ~(EndsWith(trimmed_line, HeaderSuffix) \/ EndsWith(trimmed_line, <<RBRACKET>>))
        THEN bad
        ELSE IF at > 0
        THEN IF EndsWith(sig_part, <<RBRACKET>>)
             THEN [ok |-> TRUE, path |-> Trim(SubSeq(content, 1, at - 1)),
                   sig |-> Some(SubSeq(sig_part, 1, Len(sig_part) - 1))]
             ELSE bad
        ELSE IF EndsWith(content, HeaderSuffix)
        THEN [ok |-> TRUE,
              path |-> Trim(SubSeq(content, 1, Len(content) - Len(HeaderSuffix))),
              sig |-> None]
        ELSE bad

\* write_extracted_file: the bytes of the file it creates
ExtractedBytes(content) ==
    IF content = <<>> THEN <<>>
    ELSE LET joined_content == JoinLines(content)
         IN  IF EndsWith(joined_content, <<LF>>) THEN joined_content
             ELSE joined_content \o <<LF>>

\* a Reader that never takes the key found in the archive
VerificationKeyOfConfig == uconfig.public_key

\* the public key process_extracted_file sees: unglob_file clones the config
\* with the key found in the archive when verification is on
VerificationKey ==
    IF uconfig.use_signature /\ extracted_public_key # None
    THEN extracted_public_key ELSE uconfig.public_key

\* a Reader that treats a missing signature like a failed verification
ExtractOkSignatureRequired(content, signature) ==
    \/ ~(uconfig.use_signature /\ VerificationKey # None)
    \/ /\ signature # None
       /\ verify_signature(VerificationKey[1], JoinLines(content), signature[1])

\* process_extracted_file(..).is_ok(): the signature, when one is checked, verifies
ExtractOk(content, signature) ==
    \/ ~(uconfig.use_signature /\ VerificationKey # None)
    \/ signature = None
    \/ verify_signature(VerificationKey[1], JoinLines(content), signature[1])

\* a Reader that writes the entry before it checks the signature
ProcessExtractedWritesFirst(ok) ==
    /\ verified' = IF uconfig.use_signature /\ VerificationKey # None
                      /\ current_signature # None
                   THEN Append(verified,
                               [path |-> current_file[1],
                                bytes |-> JoinLines(current_content), ok |-> ok,
                                header |-> current_header])
                   ELSE verified
    /\ anomalies' = IF uconfig.use_signature /\ VerificationKey # None
                       /\ current_signature = None
                    THEN anomalies + 1 ELSE anomalies
    /\ disk' = Append(disk, [loc |-> OutputLocation(current_file[1]),
                             bytes |-> ExtractedBytes(current_content),
                             path |-> current_file[1],
                             header |-> current_header])

\* the effect of process_extracted_file on the open entry
ProcessExtracted(ok) ==
    /\ verified' = IF uconfig.use_signature /\ VerificationKey # None
                      /\ current_signature # None
                   THEN Append(verified,
                               [path |-> current_file[1],
                                bytes |-> JoinLines(current_content), ok |-> ok,
                                header |-> current_header])
                   ELSE verified
    /\ anomalies' = IF uconfig.use_signature /\ VerificationKey # None
                       /\ current_signature = None
                    THEN anomalies + 1 ELSE anomalies
    /\ disk' = IF ok
               THEN Append(disk, [loc |-> OutputLocation(current_file[1]),
                                  bytes |-> ExtractedBytes(current_content),
                                  path |-> current_file[1],
                                  header |-> current_header])
               ELSE disk

\* the archive as the lines the Reader or an editor sees, and back
LinesToBytes(ls) == Concat([i \in 1..Len(ls) |-> ls[i] \o <<LF>>])

IsKeyLine(line) ==
    StartsWith(line, HeaderPrefix \o KeyWord) /\ EndsWith(line, <<RBRACKET>>)

IsHeaderLine(line) == ~IsKeyLine(line) /\ StartsWith(line, HeaderPrefix)

IsTerminatorLine(line) ==
    ~IsKeyLine(line) /\ ~IsHeaderLine(line) /\ line = Terminator /\ in_file_content

IsOtherLine(line) ==
    ~IsKeyLine(line) /\ ~IsHeaderLine(line) /\ ~IsTerminatorLine(line)

\* a line with its first 'a' replaced by 'b'
FlipByte(line) ==
    LET at == {i \in 1..Len(line) : line[i] = 97}
        p == CHOOSE i \in at : \A j \in at : i <= j
    IN  [line EXCEPT ![p] = 98]

\* somebody edits the archive between the two runs: one byte of one content
\* line is changed, or the signature is cut out of one header
Tamper ==
    /\ pc = "archive"
    /\ ~tampered
    /\ \E ls \in {Lines(output_file)} :
           \E i \in 1..Len(ls) :
              \/ /\ ~StartsWith(ls[i], HeaderPrefix)
                 /\ ls[i] # BinaryMarker
                 /\ \E j \in 1..Len(ls[i]) : ls[i][j] = 97
                 /\ output_file' = LinesToBytes([ls EXCEPT ![i] = FlipByte(ls[i])])
              \/ /\ StartsWith(ls[i], HeaderPrefix)
                 /\ ~IsKeyLine(ls[i])
                 /\ parse_file_header(ls[i]).ok
                 /\ parse_file_header(ls[i]).sig # None
                 /\ output_file' = LinesToBytes([ls EXCEPT ![i] =
                        HeaderPrefix \o parse_file_header(ls[i]).path \o HeaderSuffix])
    /\ tampered' = TRUE
    /\ UNCHANGED <<pc, args, GLOBAL_LOGGER, stderr, stream_writes, normalizer_max,
                   normalizer_input, config, temp_git_dir, fault,
                   next_file, files_processed, archive_exists,
                   emitted, scrape_result, uconfig, lines, pos, current_file,
                   current_content, current_signature, in_file_content,
                   extracted_public_key, files_extracted, disk, verified,
                   anomalies, current_header, unglob_result>>

\* main in unglob mode up to the Reader's loop: the options, the archive opened
UnglobStart ==
    /\ pc = "archive"
    /\ \E sig \in BOOLEAN, strict \in BOOLEAN :
          uconfig' = [use_signature |-> sig, abort_on_error |-> strict,
                      public_key |-> None]
    /\ lines' = Lines(output_file)
    /\ pos' = 1
    /\ pc' = "unglob"
    /\ UNCHANGED <<enc_vars, current_file, current_content, current_signature,
                   in_file_content, extracted_public_key, files_extracted, disk,
                   verified, anomalies, current_header, tampered, unglob_result>>

\* the Reader reads a public-key header (and the line after it)
ReadKeyLine ==
    /\ pc = "unglob"
    /\ pos <= Len(lines)
    /\ IsKeyLine(lines[pos])
    /\ LET line == lines[pos]
           encoded_key == SubSeq(line, Len(HeaderPrefix) + Len(KeyWord) + 1, Len(line) - 1)
           valid == \E k \in Keys : encoded_key = KeyText(k)
       IN  IF valid
           THEN /\ extracted_public_key' =
                       Some(CHOOSE k \in Keys : encoded_key = KeyText(k))
                /\ IF pos + 1 <= Len(lines) /\ lines[pos + 1] # Terminator
                   THEN /\ unglob_result' = "MissingKeyTerminator"
                        /\ pc' = "done"
                        /\ pos' = pos + 1
                   ELSE /\ pos' = pos + 2
                        /\ UNCHANGED <<pc, unglob_result>>
           ELSE /\ pos' = pos + 1
                /\ UNCHANGED <<pc, unglob_result, extracted_public_key>>
    /\ UNCHANGED <<enc_vars, uconfig, lines, current_file, current_content,
                   current_signature, in_file_content, files_extracted, disk,
                   verified, anomalies, current_header, tampered>>

\* the Reader reads a file header: the open entry, if any, is written out,
\* then the header is parsed and opens the next entry
ReadHeaderLine ==
    /\ pc = "unglob"
    /\ pos <= Len(lines)
    /\ IsHeaderLine(lines[pos])
    /\ LET open == current_file # None
           ok == ExtractOk(current_content, current_signature)
           h == parse_file_header(lines[pos])
       IN  /\ IF open
              THEN ProcessExtracted(ok)
              ELSE UNCHANGED <<disk, verified, anomalies>>
           /\ IF open /\ ~ok
              THEN /\ unglob_result' = "VerificationFailed"
                   /\ pc' = "done"
                   /\ current_file' = None
                   /\ UNCHANGED <<pos, current_content, current_signature,
                                  in_file_content, files_extracted, current_header>>
              ELSE /\ files_extracted' = IF open THEN files_extracted + 1
                                         ELSE files_extracted
                   /\ current_content' = IF open THEN <<>> ELSE current_content
                   /\ IF h.ok
                      THEN /\ current_file' = Some(h.path)
                           /\ current_signature' = h.sig
                           /\ in_file_content' = TRUE
                           /\ current_header' = pos
                           /\ pos' = pos + 1
                           /\ UNCHANGED <<pc, unglob_result>>
                      ELSE /\ unglob_result' = "MalformedHeader"
                           /\ pc' = "done"
                           /\ current_file' = None
                           /\ UNCHANGED <<pos, current_signature, in_file_content,
                                          current_header>>
    /\ UNCHANGED <<enc_vars, uconfig, lines, extracted_public_key, tampered>>

\* the Reader reads the terminator of the open entry
ReadTerminatorLine ==
    /\ pc = "unglob"
    /\ pos <= Len(lines)
    /\ IsTerminatorLine(lines[pos])
    /\ in_file_content' = FALSE
    /\ pos' = pos + 1
    /\ UNCHANGED <<pc, enc_vars, uconfig, lines, current_file, current_content,
                   current_signature, extracted_public_key, files_extracted, disk,
                   verified, anomalies, current_header, tampered, unglob_result>>

\* a Reader that collects the lines of an open entry after its terminator too
CollectingWhileOpen == current_file # None

\* the Reader is collecting the lines of an open entry
Collecting == in_file_content /\ current_file # None

\* a Reader that leaves in_file_content alone when it drops a binary entry
InContentAfterSentinelKept == in_file_content

\* in_file_content once the binary sentinel dropped the open entry
InContentAfterSentinel == FALSE

\* the Reader reads any other line: the binary sentinel drops the open entry,
\* a line of an open entry is collected, a line outside an entry is skipped
ReadOtherLine ==
    /\ pc = "unglob"
    /\ pos <= Len(lines)
    /\ IsOtherLine(lines[pos])
    /\ IF Collecting
       THEN IF lines[pos] = BinaryMarker
            THEN /\ current_file' = None
                 /\ in_file_content' = InContentAfterSentinel
                 /\ UNCHANGED current_content
            ELSE /\ current_content' = Append(current_content, lines[pos])
                 /\ UNCHANGED <<current_file, in_file_content>>
       ELSE UNCHANGED <<current_file, in_file_content, current_content>>
    /\ pos' = pos + 1
    /\ UNCHANGED <<pc, enc_vars, uconfig, lines, current_signature,
                   extracted_public_key, files_extracted, disk, verified,
                   anomalies, current_header, tampered, unglob_result>>

\* a Reader that reports success whatever it extracted
EndResultOk(extracted) == "Ok"

\* what unglob_file returns at the end of the archive
EndResult(extracted) == IF extracted = 0 THEN "NoFilesExtracted" ELSE "Ok"

\* the Reader at the end of the archive: the open entry, if any, is written
\* out; no entry written at all is an error
UnglobEnd ==
    /\ pc = "unglob"
    /\ pos > Len(lines)
    /\ LET open == current_file # None
           ok == ExtractOk(current_content, current_signature)
       IN  /\ IF open
              THEN ProcessExtracted(ok)
              ELSE UNCHANGED <<disk, verified, anomalies>>
           /\ IF open /\ ~ok
              THEN /\ unglob_result' = "VerificationFailed"
                   /\ UNCHANGED files_extracted
              ELSE /\ files_extracted' = IF open THEN files_extracted + 1
                                         ELSE files_extracted
                   /\ unglob_result' = EndResult(files_extracted')
    /\ pc' = "done"
    /\ current_file' = None
    /\ UNCHANGED <<enc_vars, uconfig, lines, pos, current_content,
                   current_signature, in_file_content, extracted_public_key,
                   current_header, tampered>>

(* ---------------------------- specification --------------------------- *)

\* the state before anything ran: ScrapeConfig::default(), the logger at
\* level Warn and not quiet, nothing written or extracted; at is where the
\* run starts, files the files that can be in place of the archive, maxima
\* the maxima the normalizer can be called with
InitAt(at, runs, faults, files, maxima) ==
    /\ pc = at
    /\ args \in runs
    /\ GLOBAL_LOGGER = [level |-> Warn, quiet_mode |-> FALSE]
    /\ stderr = <<>>
    /\ stream_writes = <<>>
    /\ normalizer_max \in maxima
    /\ normalizer_input = <<>>
    /\ config = [file_entries |-> <<>>, use_signature |-> FALSE,
                 keypair |-> None, public_key |-> None, basic_test |-> FALSE,
                 no_dot_files |-> TRUE, quiet |-> FALSE, verbose |-> FALSE,
                 abort_on_error |-> FALSE, temp_git_path |-> None,
                 file_type_hash |-> {}, filter_files |-> TRUE,
                 recursive |-> FALSE, name_pattern |-> <<>>,
                 max_file_size |-> DEFAULT_MAX_FILE_SIZE,
                 processed_files |-> 0, failed_files |-> 0]
    /\ temp_git_dir = "none"
    /\ fault \in faults
    /\ next_file = 1
    /\ files_processed = 0
    /\ output_file \in files
    /\ archive_exists = FALSE
    /\ emitted = <<>>
    /\ scrape_result = ""
    /\ uconfig = [use_signature |-> FALSE, abort_on_error |-> FALSE, public_key |-> None]
    /\ lines = <<>>
    /\ pos = 1
    /\ current_file = None
    /\ current_content = <<>>
    /\ current_signature = None
    /\ in_file_content = FALSE
    /\ extracted_public_key = None
    /\ files_extracted = 0
    /\ disk = <<>>
    /\ verified = <<>>
    /\ anomalies = 0
    /\ current_header = 0
    /\ tampered = FALSE
    /\ unglob_result = ""

\* the state at the start of main; run_scraper calls the normalizer with 2
InitRun(runs, faults) == InitAt("main", runs, faults, {<<>>}, {2})

Init ==
    \/ InitRun(ContentRuns \cup OptionRuns, {None})
    \/ InitRun(FaultRuns, Faults)

Next ==
    \/ main
    \/ ScrapeStart
    \/ ProcessFile
    \/ ScrapeEnd
    \/ Tamper
    \/ UnglobStart
    \/ ReadKeyLine
    \/ ReadHeaderLine
    \/ ReadTerminatorLine
    \/ ReadOtherLine
    \/ UnglobEnd

Spec == Init /\ [][Next]_vars

(* ------ the encoding run alone, with a vanishing file or without ------ *)

InitEncoder == InitRun(ContentRuns, Vanished \cup {None})

NextEncoder ==
    \/ main
    \/ ScrapeStart
    \/ ProcessFile
    \/ ScrapeEnd

SpecEncoder == InitEncoder /\ [][NextEncoder]_vars

(* ------------------- the collection of a directory ------------------- *)

InitCollect == InitRun(CollectRuns, {None})

SpecCollect == InitCollect /\ [][main]_vars

(* ------------------ the encoding run on a git URL -------------------- *)

InitClone == InitRun(CloneRuns, {None})

SpecClone == InitClone /\ [][NextEncoder]_vars

(* ------------------- the normalizer on its own ------------------------ *)

\* most bytes of a file given to the normalizer
MaxText == 5
\* largest maximum the normalizer is called with
MaxNewlines == 2

\* the bytes of those files: 'a', space, line feed, carriage return
TextBytes == {97, SP, LF, CR}

\* clean_up_text called on the file, and called again on its own output
CleanUpText ==
    /\ pc \in {"clean_up_text", "cleaned"}
    /\ normalizer_input' = Append(normalizer_input, output_file)
    /\ output_file' = clean_up_text(output_file, normalizer_max)
    /\ pc' = IF pc = "clean_up_text" THEN "cleaned" ELSE "cleaned_again"
    /\ UNCHANGED <<args, GLOBAL_LOGGER, stderr, stream_writes, normalizer_max,
                   config, temp_git_dir, fault, next_file, files_processed,
                   archive_exists,
                   emitted, scrape_result, dec_vars>>

InitNormalizer ==
    InitAt("clean_up_text", {DefaultArgs(<<>>)}, {None},
           SeqsUpTo(TextBytes, MaxText), 0..MaxNewlines)

NextNormalizer == CleanUpText

SpecNormalizer == InitNormalizer /\ [][NextNormalizer]_vars

(* --------------------- the Reader on any archive ---------------------- *)

\* most lines of an archive given to the Reader
MaxLines == 4

\* a file header whose closing " ---" is missing
MalformedHeaderLine == HeaderPrefix \o <<97>>

\* the lines of those archives: the public-key record of key pair 1, the
\* terminator, the unsigned header of "a", the header of "b" signed for the
\* content "x", the malformed header, the line "x", the binary sentinel
ArchiveLines ==
    { HeaderPrefix \o KeyWord \o KeyText(1) \o <<RBRACKET>>,
      Terminator,
      HeaderPrefix \o <<97>> \o HeaderSuffix,
      HeaderPrefix \o <<98>> \o SigDelim \o sign_data(1, <<120>>) \o <<RBRACKET>>,
      MalformedHeaderLine,
      <<120>>,
      BinaryMarker }

InitReader ==
    InitAt("archive", {DefaultArgs(<<>>)}, {None},
           {LinesToBytes(ls) : ls \in SeqsUpTo(ArchiveLines, MaxLines)}, {2})

NextReader ==
    \/ UnglobStart
    \/ ReadKeyLine
    \/ ReadHeaderLine
    \/ ReadTerminatorLine
    \/ ReadOtherLine
    \/ UnglobEnd

SpecReader == InitReader /\ [][NextReader]_vars

(* --------------------- the header line on its own --------------------- *)

\* most pieces of a path given to the header writer
MaxChunks == 3

\* the pieces of those paths: "a", a space, " --- ", "[SIGNATURE:", "]"
PathChunks ==
    { <<97>>, <<SP>>, <<32, 45, 45, 45, 32>>,
      <<91, 83, 73, 71, 78, 65, 84, 85, 82, 69, 58>>, <<RBRACKET>> }

HeaderPaths == {Concat(cs) : cs \in SeqsUpTo(PathChunks, MaxChunks)} \ {<<>>}

\* command lines with one file of such a path, --signature or not
HeaderRuns ==
    {[DefaultArgs(<<FileEntry(path, data)>>) EXCEPT !.signature = sig] :
        path \in HeaderPaths, data \in {<<>>, <<97>>}, sig \in BOOLEAN}

\* write_file_content builds the header line of the file
WriteHeader ==
    /\ pc = "write_header"
    /\ \E k \in Keys :
          LET cfg == [config EXCEPT
                        !.use_signature = args.signature,
                        !.keypair = IF args.signature THEN Some(k) ELSE @]
              entry == args.input_paths[1]
          IN  lines' = <<HeaderLine(cfg, entry.path, entry.data, FALSE)>>
    /\ pc' = "parse_header"
    /\ UNCHANGED <<enc_vars, uconfig, pos, current_file, current_content,
                   current_signature, in_file_content, extracted_public_key,
                   files_extracted, disk, verified, anomalies, current_header,
                   tampered, unglob_result>>

\* parse_file_header reads that line
ParseHeader ==
    /\ pc = "parse_header"
    /\ LET h == parse_file_header(lines[1])
       IN  IF h.ok
           THEN /\ current_file' = Some(h.path)
                /\ current_signature' = h.sig
                /\ UNCHANGED unglob_result
           ELSE /\ unglob_result' = "MalformedHeader"
                /\ UNCHANGED <<current_file, current_signature>>
    /\ pc' = "parsed"
    /\ UNCHANGED <<enc_vars, uconfig, lines, pos, current_content,
                   in_file_content, extracted_public_key, files_extracted, disk,
                   verified, anomalies, current_header, tampered>>

InitHeader == InitAt("write_header", HeaderRuns, {None}, {<<>>}, {2})

NextOfHeader == WriteHeader \/ ParseHeader

SpecHeader == InitHeader /\ [][NextOfHeader]_vars

(* ------------------------------- claims ------------------------------- *)

\* a complete run of both programs on an archive nobody edited, no I/O failure
CleanRun ==
    /\ pc = "done"
    /\ scrape_result = "Ok"
    /\ unglob_result # ""
    /\ fault = None
    /\ ~tampered

\* the entries of the input list that are text files
TextEntries ==
    {i \in 1..Len(config.file_entries) :
        /\ IsUtf8(config.file_entries[i].data)
        /\ ~is_binary_data(config.file_entries[i].data)}

\* C1: round trip: after encoding (normalizer included) and decoding, every
\* text file of the input list has been written with its path and exactly
\* its bytes, also an empty file, a file without a trailing newline and a
\* file with runs of blank lines.
C1_RoundTrip ==
    CleanRun =>
        \A i \in TextEntries :
            \E j \in 1..Len(disk) :
                /\ disk[j].path = config.file_entries[i].path
                /\ disk[j].bytes = config.file_entries[i].data

\* C2: containment: every file the Reader creates lies inside the
\* destination directory, whatever the paths of the archive are.
C2_Containment ==
    \A j \in 1..Len(disk) :
        /\ Len(disk[j].loc) > Len(OutputBase)
        /\ SubSeq(disk[j].loc, 1, Len(OutputBase)) = OutputBase

\* C3: sign/verify symmetry: decoding an unmodified signed archive with
\* verification enabled passes to verify, for every signed entry, exactly
\* the bytes that were passed to sign, and no verification fails.
C3_SignVerifySymmetry ==
    (CleanRun /\ config.use_signature /\ uconfig.use_signature) =>
        /\ unglob_result # "VerificationFailed"
        /\ \A i \in 1..Len(emitted) :
              emitted[i].signed # None =>
                 \E j \in 1..Len(verified) :
                    /\ verified[j].path = emitted[i].path
                    /\ verified[j].bytes = emitted[i].signed[1]
                    /\ verified[j].ok

\* the header lines of the archive the Reader was given
HeaderLines == {h \in 1..Len(lines) : IsHeaderLine(lines[h])}

\* the entry opened at line h may be a binary entry: a sentinel follows
\* before the next header
MaybeBinary(h) ==
    \E m \in (h + 1)..Len(lines) :
        /\ lines[m] = BinaryMarker
        /\ \A x \in (h + 1)..m : ~IsHeaderLine(lines[x])

\* C4: in lenient mode a signature verification failure is fatal to that
\* entry only: every other entry of the archive, those after it included,
\* is still extracted.
C4_LenientContinues ==
    (/\ pc = "done"
     /\ unglob_result \notin {"", "MalformedHeader", "MissingKeyTerminator"}
     /\ ~uconfig.abort_on_error)
    => \A h \in HeaderLines :
          \/ \E j \in 1..Len(disk) : disk[j].header = h
          \/ \E j \in 1..Len(verified) : verified[j].header = h /\ ~verified[j].ok
          \/ MaybeBinary(h)

\* C5: decoding an archive that holds one binary entry and nothing else (a
\* header and the sentinel line) creates a zero-length file at the entry's
\* path and succeeds.
C5_BinaryOnlyArchive ==
    (/\ pc = "done"
     /\ unglob_result # ""
     /\ Len(lines) = 2
     /\ IsHeaderLine(lines[1])
     /\ parse_file_header(lines[1]).ok
     /\ lines[2] = BinaryMarker)
    => /\ unglob_result = "Ok"
       /\ \E j \in 1..Len(disk) :
             /\ disk[j].path = parse_file_header(lines[1]).path
             /\ disk[j].bytes = <<>>

\* the number of non-printable bytes among the sampled bytes of data
NonPrintableCount(data) ==
    Cardinality({i \in 1..Min(Len(data), SampleLimit) : NonPrintable(data[i])})

\* C6: the classifier answers "binary" only if the non-printable bytes of
\* the sample are more than 5 and more than 10% of the sample.
C6_BinaryOnlyAboveBothThresholds ==
    \A i \in 1..Len(emitted) :
        emitted[i].is_binary =>
            LET data == config.file_entries[i].data
            IN  /\ NonPrintableCount(data) > 5
                /\ NonPrintableCount(data) * 10 > Min(Len(data), SampleLimit)

\* the bytes of a text entry between its header line and the line break
\* before its terminator
ContentOf(bytes) ==
    LET nl == {i \in 1..Len(bytes) : bytes[i] = LF}
        first == CHOOSE i \in nl : \A j \in nl : i <= j
    IN  SubSeq(bytes, first + 1, Len(bytes) - Len(Terminator) - 3)

\* C7: for every entry written with a signature, the signed bytes are
\* exactly the content bytes between the entry's header line and its
\* terminator line, also when the input is not valid UTF-8.
C7_SignedBytesAreWrittenBytes ==
    \A i \in 1..Len(emitted) :
        (emitted[i].ok /\ emitted[i].signed # None) =>
            /\ EndsWith(emitted[i].bytes, <<LF>> \o Terminator \o <<LF, LF>>)
            /\ ContentOf(emitted[i].bytes) = emitted[i].signed[1]

\* the public-key records and the file records of the archive file
KeyRecordsIn(ls) == {i \in 1..Len(ls) : IsKeyLine(ls[i])}
FileRecordsIn(ls) == {i \in 1..Len(ls) : IsHeaderLine(ls[i])}

\* C8: while and after the Writer writes file records, the archive holds
\* exactly one public-key record, on its first line and so before every
\* file record, when signing is enabled, and none when it is disabled.
C8_OneKeyRecordFirst ==
    (pc \in {"scrape_loop", "archive"} /\ ~tampered) =>
        \A ls \in {Lines(output_file)} :
            /\ config.use_signature => KeyRecordsIn(ls) = {1}
            /\ ~config.use_signature => KeyRecordsIn(ls) = {}
            /\ \A k \in KeyRecordsIn(ls), f \in FileRecordsIn(ls) : k < f

\* C8 witness: a signed archive with two file records
C8_Witness ==
    /\ pc = "archive"
    /\ ~tampered
    /\ config.use_signature
    /\ KeyRecordsIn(Lines(output_file)) = {1}
    /\ Cardinality(FileRecordsIn(Lines(output_file))) = 2

\* the lines of one entry are a header line and then either the sentinel
\* alone, or content, one terminator line and one blank line after it
WellFormedEntry(bytes) ==
    LET ls == Lines(bytes)
        n == Len(ls)
    IN  /\ EndsWith(bytes, <<LF>>)
        /\ n >= 2
        /\ {i \in 1..n : StartsWith(ls[i], HeaderPrefix)} = {1}
        /\ \/ n = 2 /\ ls[2] = BinaryMarker
           \/ /\ n >= 3
              /\ {i \in 1..n : ls[i] = Terminator} = {n - 1}
              /\ ls[n] = <<>>
              /\ \A i \in 1..n : ls[i] # BinaryMarker

\* C9: every entry the Writer emits has that structure, after any sequence
\* of write_entry calls, calls that fail part-way included.
C9_EntryStructure ==
    \A i \in 1..Len(emitted) :
        emitted[i].bytes # <<>> => WellFormedEntry(emitted[i].bytes)

\* the Reader is about to write out an entry that has no signature while
\* verification is enabled and a public key was found
UnsignedEntryDue ==
    /\ pc = "unglob"
    /\ current_file # None
    /\ current_signature = None
    /\ uconfig.use_signature
    /\ extracted_public_key # None
    /\ (pos > Len(lines) \/ IsHeaderLine(lines[pos]))

\* C10: such an entry is reported as an anomaly, written to disk and counted
\* as extracted, and the run does not end with a verification failure: it
\* goes on with the next header, or ends at the end of the archive.
C10_MissingSignatureIsAnomaly ==
    [][UnsignedEntryDue =>
          /\ anomalies' = anomalies + 1
          /\ files_extracted' = files_extracted + 1
          /\ Len(disk') = Len(disk) + 1
          /\ disk'[Len(disk')].path = current_file[1]
          /\ disk'[Len(disk')].bytes = ExtractedBytes(current_content)
          /\ unglob_result' \in {"", "Ok", "MalformedHeader"}
          /\ (pos <= Len(lines) /\ parse_file_header(lines[pos]).ok) => pc' = "unglob"
      ]_vars

\* C10 witness: an entry without a signature was written, and the signed
\* entry after it was verified and written too
C10_Witness ==
    /\ pc = "done"
    /\ unglob_result = "Ok"
    /\ anomalies = 1
    /\ Len(disk) = 2
    /\ Len(verified) = 1
    /\ verified[1].ok
    /\ verified[1].header > disk[1].header
    /\ disk[2].header = verified[1].header

\* the entries of the input list for which a write call failed
FailedEntries == {i \in 1..Len(emitted) : ~emitted[i].ok}

\* C11: partial-success encoding: the writer loop attempts the entries of
\* the input list one by one in order, each exactly once; a failure on one
\* entry does not end the run nor keep the next entry from being attempted;
\* successes and failures counted add up to the entries attempted, and to
\* the whole list when the loop has ended.
C11_PartialSuccess ==
    /\ Len(emitted) = next_file - 1
    /\ \A i \in 1..Len(emitted) : emitted[i].path = config.file_entries[i].path
    /\ config.processed_files + config.failed_files = Len(emitted)
    /\ config.failed_files = Cardinality(FailedEntries)
    /\ next_file > 1 => scrape_result \in {"", "Ok", "NoFilesProcessed"}
    /\ scrape_result \in {"Ok", "NoFilesProcessed"} =>
          /\ Len(emitted) = Len(config.file_entries)
          /\ config.processed_files + config.failed_files = Len(config.file_entries)

\* C11 witness: the first entry failed, the second one was written after it
\* and the run ended with an archive
C11_Witness ==
    /\ scrape_result = "Ok"
    /\ Len(emitted) = 2
    /\ ~emitted[1].ok
    /\ emitted[2].ok
    /\ config.processed_files = 1
    /\ config.failed_files = 1

\* C12: with -e an encoding run stops at the first entry that fails: no later
\* entry is processed and the run ends in failure.
C12_AbortOnError ==
    \A i \in FailedEntries :
        args.abort_on_error =>
            /\ Len(emitted) = i
            /\ scrape_result # "Ok"

\* the paths of the file records among the lines ls, in order
RecordPaths(ls) ==
    LET hs == SelectSeq(ls, IsHeaderLine)
    IN  [i \in 1..Len(hs) |-> parse_file_header(hs[i]).path]

\* the paths of the entries whose header line reached the archive, in the
\* order of the input list
WrittenPaths ==
    LET ws == SelectSeq(emitted, LAMBDA e : e.bytes # <<>>)
    IN  [i \in 1..Len(ws) |-> ws[i].path]

\* where the header of an entry with this path starts in the archive file,
\* 0 when it is not there
HeaderAt(file, path) ==
    LET h == HeaderPrefix \o path \o HeaderSuffix
        at == {i \in 1..(Len(file) - Len(h) + 1) : SubSeq(file, i, i + Len(h) - 1) = h}
    IN  IF at = {} THEN 0 ELSE CHOOSE i \in at : \A j \in at : i <= j

\* C13: the file records of the archive are in the order of the input list,
\* while it is written and after the normalizer ran: of two entries that
\* were written, the header of the earlier one comes first, and when no
\* write failed the records of the archive are the entries of the list in
\* order; and the Reader writes out and verifies entries in the order of
\* their headers in the archive.
C13_InputOrder ==
    /\ (pc \in {"scrape_loop", "archive"} /\ ~tampered) =>
          /\ \A i \in 1..Len(emitted), j \in 1..Len(emitted) :
                (i < j /\ emitted[i].ok /\ emitted[j].ok) =>
                    /\ HeaderAt(output_file, emitted[i].path) > 0
                    /\ HeaderAt(output_file, emitted[i].path)
                          < HeaderAt(output_file, emitted[j].path)
          /\ fault = None => RecordPaths(Lines(output_file)) = WrittenPaths
    /\ \A j \in 1..Len(disk), k \in 1..Len(disk) :
          j < k => disk[j].header < disk[k].header
    /\ \A j \in 1..Len(verified), k \in 1..Len(verified) :
          j < k => verified[j].header < verified[k].header

\* C13 witness: two files encoded and decoded, each written out in its turn
C13_Witness ==
    /\ pc = "done"
    /\ unglob_result = "Ok"
    /\ ~tampered
    /\ Len(config.file_entries) = 2
    /\ Len(disk) = 2
    /\ disk[1].path = config.file_entries[1].path
    /\ disk[2].path = config.file_entries[2].path
    /\ disk[1].path # disk[2].path

\* the errors of a decoding run other than "no files extracted"
OtherUnglobErrors == {"MalformedHeader", "MissingKeyTerminator", "VerificationFailed"}

\* C14: a decoding run that has ended returned NoFilesExtracted exactly when
\* it read the whole archive, met no other error and wrote out no entry; it
\* returned success when it met no error and wrote out at least one entry;
\* a failed verification is never reported as either.
C14_NoFilesExtracted ==
    (pc = "done" /\ unglob_result # "") =>
        /\ unglob_result \in {"Ok", "NoFilesExtracted"} \cup OtherUnglobErrors
        /\ unglob_result = "NoFilesExtracted" <=>
              (unglob_result \notin OtherUnglobErrors /\ Len(disk) = 0)
        /\ unglob_result = "NoFilesExtracted" =>
              (pos > Len(lines) /\ files_extracted = 0)
        /\ unglob_result = "Ok" <=>
              (unglob_result \notin OtherUnglobErrors /\ Len(disk) >= 1)
        /\ (\E j \in 1..Len(verified) : ~verified[j].ok) =>
              unglob_result = "VerificationFailed"

\* C14 witness: an archive with lines in it was read to its end and nothing
\* was written out
C14_Witness ==
    /\ pc = "done"
    /\ unglob_result = "NoFilesExtracted"
    /\ Len(lines) > 0
    /\ pos > Len(lines)
    /\ disk = <<>>

C16_Idempotent ==
    pc = "cleaned_again" => output_file = normalizer_input[2]

\* the lines of a file as the bytes between line feeds, those that are not
\* whitespace-only
NonBlankLines(bytes) ==
    SelectSeq(SplitFrom(bytes, LF, <<>>), LAMBDA l : Trim(l) # <<>>)

\* a run of more than max whitespace-only lines starts at line i of ls
LongBlankRun(ls, i, max) ==
    /\ i + max <= Len(ls)
    /\ \A j \in i..(i + max) : Trim(ls[j]) = <<>>

\* C17: the output of the normalizer has no run of more than the maximum of
\* whitespace-only lines, and its non-blank lines are the non-blank lines of
\* its input, byte for byte and in the same order.
C17_NormalizerOutput ==
    pc = "cleaned" =>
        /\ \A ls \in {SplitFrom(output_file, LF, <<>>)} :
              \A i \in 1..(Len(ls) - 1) : ~LongBlankRun(SubSeq(ls, 1, Len(ls) - 1),
                                                        i, normalizer_max)
        /\ NonBlankLines(output_file) = NonBlankLines(normalizer_input[1])

\* C18: every batch of writes to the output stream of an encoding run is made
\* with config.output_mutex held, the public-key record included.
C18_WritesUnderMutex ==
    \A i \in 1..Len(stream_writes) : stream_writes[i].locked

\* C19: with -q a successful encoding run emits no log record, whatever the
\* other options are.
C19_QuietIsSilent ==
    (args.quiet /\ scrape_result = "Ok") => stderr = <<>>

\* a path whose base name starts with '.'
IsDotFile(path) == StartsWith(BaseName(path), <<DOT>>)

\* C20: without -d no dot file is in the entry list or is written to the
\* archive, whether the files were named on the command line, found in a
\* directory or listed by git; with -d every input file is in the entry
\* list, dot files like the others.
C20_DotFiles ==
    /\ ~args.dot_files =>
          /\ \A i \in 1..Len(config.file_entries) :
                ~IsDotFile(config.file_entries[i].path)
          /\ \A i \in 1..Len(emitted) : ~IsDotFile(emitted[i].path)
          /\ (pc = "archive" /\ ~tampered) =>
                \A ls \in {RecordPaths(Lines(output_file))} :
                   \A i \in 1..Len(ls) : ~IsDotFile(ls[i])
    /\ (args.dot_files /\ pc # "main") =>
          config.file_entries = args.input_paths

\* C20 witness: a dot file and another file were named on the command line
\* without -d, and the archive was written with the other file alone
C20_Witness ==
    /\ pc = "archive"
    /\ ~args.dot_files
    /\ args.source = "paths"
    /\ \E i \in 1..Len(args.input_paths) : IsDotFile(args.input_paths[i].path)
    /\ Len(args.input_paths) = 2
    /\ Len(config.file_entries) = 1
    /\ Len(emitted) = 1

\* a public-key line whose key decodes
ValidKeyLine(line) ==
    /\ IsKeyLine(line)
    /\ \E k \in Keys :
          SubSeq(line, Len(HeaderPrefix) + Len(KeyWord) + 1, Len(line) - 1) = KeyText(k)

\* line j is a terminator the Reader reads as one: the line after a public-key
\* line is consumed with it
TermRead(j) ==
    lines[j] = Terminator /\ ~(j > 1 /\ ValidKeyLine(lines[j - 1]))

\* the first header line after line h, or the end of the archive
NextHeader(h) ==
    LET later == {n \in HeaderLines : n > h}
    IN  IF later = {} THEN Len(lines) + 1
        ELSE CHOOSE n \in later : \A m \in later : n <= m

\* the entry opened at line h is dropped as binary: the sentinel follows
\* before its terminator and before the next header
Dropped(h) ==
    \E s \in (h + 1)..(NextHeader(h) - 1) :
        /\ lines[s] = BinaryMarker
        /\ \A j \in (h + 1)..(s - 1) : ~TermRead(j)

\* the files on disk written for the entry opened at line h
RecordsOf(h) == {j \in 1..Len(disk) : disk[j].header = h}

\* C22: whenever the Reader processes a file-header line it enters InEntry
\* with empty accumulated content, so the content of an open entry holds only
\* lines that occur after that entry's own header.
C22_HeaderStartsEmpty ==
    (pc = "unglob" /\ current_file # None)
        => Len(current_content) <= pos - 1 - current_header

\* the terminator of the open entry was read
TerminatedOpen ==
    /\ current_file # None
    /\ \E t \in (current_header + 1)..Min(pos - 1, Len(lines)) : TermRead(t)

\* C23: every entry opened by a header and not dropped as binary is
\* finalized exactly once, at the next header or at the end of the stream,
\* whether or not a terminator was seen; lines after the entry's terminator
\* and before the next header never become part of its content.
C23_FinalizedOnce ==
    /\ [](/\ \A h \in HeaderLines : Cardinality(RecordsOf(h)) <= 1
          /\ (pc = "done" /\ unglob_result \in {"Ok", "NoFilesExtracted"})
                => \A h \in HeaderLines : (RecordsOf(h) # {}) <=> ~Dropped(h))
    /\ [][(pc = "unglob" /\ TerminatedOpen)
             => current_content' \in {current_content, <<>>}]_vars

\* an entry with a terminator and a line after it was finalized at the end
\* of the stream, and so was an entry without a terminator at the next header
C23_Witness ==
    /\ pc = "done"
    /\ unglob_result = "Ok"
    /\ \E h \in HeaderLines :
          /\ NextHeader(h) = Len(lines) + 1
          /\ \E t \in (h + 1)..(Len(lines) - 1) : TermRead(t)
          /\ lines[Len(lines)] = <<120>>
          /\ RecordsOf(h) # {}

\* C26: at every line boundary of the Reader's loop, in_file_content implies
\* that current_file is set: content is never collected with no open entry.
C26_ContentImpliesOpenEntry ==
    (pc = "unglob" /\ in_file_content) => current_file # None

\* the sentinel has just dropped an entry that had collected a line
C26_Witness ==
    /\ pc = "unglob"
    /\ pos > 1
    /\ pos - 1 <= Len(lines)
    /\ lines[pos - 1] = BinaryMarker
    /\ current_file = None
    /\ current_header > 0
    /\ current_content # <<>>

\* the entry opened at line h was written although its header carries a
\* signature that no verification accepted
WrittenUnverified(h) ==
    /\ RecordsOf(h) # {}
    /\ parse_file_header(lines[h]).sig # None
    /\ ~\E j \in 1..Len(verified), k \in Keys :
           /\ verified[j].header = h
           /\ verify_signature(k, verified[j].bytes, parse_file_header(lines[h]).sig[1])

\* C27 as stated: with verification enabled, an entry whose header carries a
\* signature is never written to disk unless that signature was verified
\* against a public key found in the archive, whatever the archive.
C27_SignedNeverWrittenUnverified ==
    uconfig.use_signature => \A h \in HeaderLines : ~WrittenUnverified(h)

\* a public-key record was read before the entry opened at line h is
\* finalized (at the next header or at the end of the archive)
KeyFoundBeforeFinalizing(h) ==
    \E j \in 1..(NextHeader(h) - 1) : ValidKeyLine(lines[j])

\* C27, amended: with verification enabled and a public-key record read
\* before the entry is finalized, an entry whose header carries a signature
\* is never written to disk unless that signature verified against that key;
\* without such a record the entry is written unverified.
C27_SignedVerifiedWhenKeyFound ==
    uconfig.use_signature =>
        \A h \in HeaderLines : KeyFoundBeforeFinalizing(h) => ~WrittenUnverified(h)

\* a signed entry was verified and written, the key record standing after
\* the entry's lines
C27_Witness ==
    /\ pc = "done"
    /\ uconfig.use_signature
    /\ \E h \in HeaderLines :
          /\ parse_file_header(lines[h]).sig # None
          /\ RecordsOf(h) # {}
          /\ ~WrittenUnverified(h)
          /\ \E j \in (h + 1)..Len(lines) : ValidKeyLine(lines[j])

\* the decoding run failed
DecodeFailed ==
    /\ pc = "done"
    /\ unglob_result \in {"MalformedHeader", "MissingKeyTerminator", "VerificationFailed"}

\* the line the decoding run failed at
FailLine ==
    IF unglob_result = "MissingKeyTerminator" THEN pos - 1
    ELSE Min(pos, Len(lines) + 1)

\* the entries finalized before the failure: opened and not dropped, the next
\* header (or the end) reached, and not the entry whose verification failed
FinalizedBeforeFailure ==
    {h \in HeaderLines :
        /\ h < FailLine
        /\ parse_file_header(lines[h]).ok
        /\ ~Dropped(h)
        /\ NextHeader(h) <= FailLine
        /\ ~(unglob_result = "VerificationFailed" /\ NextHeader(h) = FailLine)}

\* C28: when decode fails at some line, the files on disk are exactly the
\* entries finalized before the failure, in archive order; the entry whose
\* verification failed is not written, and nothing after the failure is.
C28_DiskAtFailure ==
    DecodeFailed =>
        /\ {disk[j].header : j \in 1..Len(disk)} = FinalizedBeforeFailure
        /\ \A i, j \in 1..Len(disk) : i < j => disk[i].header < disk[j].header

\* a verification failure after an entry was written
C28_Witness ==
    /\ DecodeFailed
    /\ unglob_result = "VerificationFailed"
    /\ disk # <<>>
    /\ \E h \in HeaderLines : h < FailLine /\ RecordsOf(h) = {}

\* C24: header round trip: parsing the header line the Writer emits for a
\* path and an optional signature returns exactly that path and that
\* signature (none for the unsigned form), whatever the path contains.
C24_HeaderRoundTrip ==
    pc = "parsed" =>
        /\ unglob_result = ""
        /\ current_file = Some(args.input_paths[1].path)
        /\ current_signature =
              IF args.signature
              THEN Some(sign_data(1, args.input_paths[1].data))
              ELSE None

\* C30: after an encoding run processed_files equals the number of file
\* records written to the archive: a file that process_file skips is not
\* counted, so a successful run yields an archive with at least one record.
C30_ProcessedEqualsRecords ==
    (pc = "archive" /\ scrape_result = "Ok") =>
        /\ config.processed_files = Cardinality(FileRecordsIn(Lines(output_file)))
        /\ FileRecordsIn(Lines(output_file)) # {}

\* "[SIGNATURE:"
SignatureTag == SubSeq(SigDelim, 6, Len(SigDelim))

\* p, which is not empty, occurs in s
Holds(s, p) ==
    \E i \in 1..(Len(s) - Len(p) + 1) :
        s[i] = p[1] /\ SubSeq(s, i, i + Len(p) - 1) = p

\* the header line of the i-th entry written: its bytes up to the first
\* line feed
WrittenHeader(i) ==
    LET b == emitted[i].bytes
        ends == {k \in 1..Len(b) : b[k] = LF /\ \A j \in 1..(k - 1) : b[j] # LF}
    IN  IF ends = {} THEN b ELSE SubSeq(b, 1, (CHOOSE k \in ends : TRUE) - 1)

\* C25: an entry's header carries a signature if and only if signing is
\* enabled and the entry's content is classified as text: no header holds
\* "[SIGNATURE:" with signing disabled, every text entry's header holds one
\* with signing enabled, and binary entries are never signed.
C25_SignedIffSigningAndText ==
    \A i \in 1..Len(emitted) :
        emitted[i].bytes # <<>> =>
            (Holds(WrittenHeader(i), SignatureTag)
                <=> (config.use_signature /\ ~emitted[i].is_binary))

\* a signed run wrote a text entry with a signature and a binary entry
\* without one
C25_Witness ==
    /\ config.use_signature
    /\ \E i, j \in 1..Len(emitted) :
          /\ ~emitted[i].is_binary
          /\ emitted[i].bytes # <<>>
          /\ Holds(WrittenHeader(i), SignatureTag)
          /\ emitted[j].is_binary
          /\ emitted[j].bytes # <<>>
          /\ ~Holds(WrittenHeader(j), SignatureTag)

\* main has returned from an encoding run
MainReturned == pc \in {"done", "archive"} /\ scrape_result # ""

\* C29: a temporary clone directory made for a git URL is removed on every
\* path by which main returns after the clone succeeded, in success and in
\* every error.
C29_CloneDirRemoved ==
    (MainReturned /\ config.temp_git_path # None) => temp_git_dir = "removed"

\* the regular files under a directory at any depth: path, base name, size,
\* and whether a directory on the way down from it is dot-named
RECURSIVE FilesUnder(_, _, _)
FilesUnder(entries, dir_path, in_dot_dir) ==
    UNION {IF IsDirectory(entries[i])
           THEN FilesUnder(entries[i].entries,
                           dir_path \o entries[i].path \o <<SLASH>>,
                           in_dot_dir \/ StartsWith(entries[i].path, <<DOT>>))
           ELSE {[path |-> dir_path \o entries[i].path, name |-> entries[i].path,
                  size |-> Len(entries[i].data), in_dot_dir |-> in_dot_dir]} :
           i \in 1..Len(entries)}

\* the text of the base name from its last dot on, none without a dot
LastSuffix(name) ==
    IF RFind(name, <<DOT>>) = 0 THEN None
    ELSE Some(SubSeq(name, RFind(name, <<DOT>>), Len(name)))

\* the files the claim says are collected from the directory
Selected ==
    {f.path : f \in {g \in FilesUnder(args.input_paths, <<>>, FALSE) :
        /\ ~args.dot_files => (~g.in_dot_dir /\ ~StartsWith(g.name, <<DOT>>))
        /\ g.size <= (IF args.max_size = None THEN DEFAULT_MAX_FILE_SIZE
                      ELSE args.max_size[1] * 1024 * 1024)
        /\ args.name_pattern # <<>> => glob_match(args.name_pattern, g.name)
        /\ (~args.all_files /\ args.file_types # {}) =>
              /\ LastSuffix(g.name) # None
              /\ \E t \in args.file_types : LastSuffix(g.name)[1] = <<DOT>> \o t}}

\* C21: with recursion enabled the entries collected from an input directory
\* are exactly the regular files at any depth under it (outside dot-named
\* directories and without dot-named files, by default) that are not larger
\* than the maximum, whose base name matches the pattern when one is set and
\* whose extension is in the type set when type filtering is active and the
\* set is not empty: none else is collected and none of them is missed.
C21_DirectoryCollection ==
    (pc # "main" /\ args.source = "directory" /\ args.recursive
     /\ scrape_result \in {"", "NoFilesFound"}) =>
        {config.file_entries[i].path : i \in 1..Len(config.file_entries)} = Selected
====
